---- MODULE Spec2Model ----
(***************************************************************************)
(* A model of the enigmind puzzle generator (lib/src/setup.rs, rule.rs,    *)
(* code.rs): generate_game as a state machine whose steps are the rule     *)
(* universe generation, the iterations of the random selection loop, the   *)
(* redundancy cleanup and the assembly of the Game, together with the pure *)
(* functions of Code and Rule.                                             *)
(*                                                                         *)
(* A bitmask (nbitmask::BitMask<u64>) of n bits is the set of the indices  *)
(* in 0..n-1 whose bit is set: AND is \cap, OR is \cup, count_ones is      *)
(* Cardinality.                                                            *)
(***************************************************************************)
EXTENDS Integers, Sequences, FiniteSets, TLC

VARIABLES
    base,                         \* generate_game's argument base: u8
    column_count,                 \* generate_game's argument column_count: u8
    difficulty_pct,               \* generate_game's argument difficulty_pct: u8
    pc,                           \* the position inside generate_game
    rules,                        \* the filtered rule universe (Rules)
    final_bitmask,                \* generate_verificators' working mask
    verificators_before_cleanup,  \* the accepted verifiers, in order
    final_verificators,           \* the verifiers retained by the cleanup
    visited,                      \* the verifiers the cleanup visited, each
                                  \* with its other_bitmask and is_rule_useful
    iteration,                    \* bitmask_and and msg of the last iteration
                                  \* of the selection loop
    code,                         \* the decoded secret code
    criterias,                    \* Game.criterias
    outcome,                      \* how generate_game stopped
    call                          \* the last application of a pure function

vars == << base, column_count, difficulty_pct, pc, rules, final_bitmask,
           verificators_before_cleanup, final_verificators, visited,
           iteration, code, criterias, outcome, call >>

---------------------------------------------------------------------------
(* Bounds of the model. *)

\* generate_game is explored for base <= MaxBase, column_count <= MaxCols
\* and a solution space of at most MaxSolutionCount codes.
MaxBase == 4
MaxCols == 3
MaxSolutionCount == 4

\* The pure functions are explored for solution spaces of at most
\* PureMaxSolutionCount codes (base <= PureMaxBase, column_count <= PureMaxCols).
PureMaxBase == 5
PureMaxCols == 3
PureMaxSolutionCount == 125

\* The selection loop of the scenario generate_game(5, 3, 10) is followed
\* for at most MaxScenarioAccepted accepted verifiers.
MaxScenarioAccepted == 1

\* Two successive calls of generate_game are explored for a solution space
\* of at most MaxTwoCallsSolutionCount codes.
MaxTwoCallsSolutionCount == 3

\* The command line of the terminal UI is explored on Games with a solution
\* space of at most MaxTuiSolutionCount codes.
MaxTuiSolutionCount == 2

\* solution_count is computed for every base of a u8 and for
\* column_count <= MaxCountedCols (every base >= 3 goes beyond 2^32 within
\* 21 columns).
MaxCountedCols == 22

\* u8::MAX, the largest base
U8Max == 255

\* The u8 sums and products of the Sum rules are computed for every base of
\* a u8 and for column_count <= MaxSumCols.
MaxSumCols == 2

\* generate_game(5, 3, 10), the call of the terminal client
ScenarioBase == 5
ScenarioColumnCount == 3
ScenarioDifficulty == 10

\* The values of difficulty_pct explored (200 exercises the clamp).
Difficulties == {0, 10, 50, 100, 200}

---------------------------------------------------------------------------
(* Arithmetic and sequence helpers. *)

RECURSIVE Pow(_, _)
\* u32::pow; in the configurations explored every power is far below 2^32
Pow(b, e) == IF e = 0 THEN 1 ELSE b * Pow(b, e - 1)

\* Vec::reverse
Reverse(s) == [i \in 1..Len(s) |-> s[Len(s) + 1 - i]]

\* the set of the elements of a sequence
Range(s) == {s[i] : i \in 1..Len(s)}

\* code.0.iter().filter(|x| **x == value).count()
CountEq(c, value) == Cardinality({i \in 1..Len(c) : c[i] = value})

\* code.0.iter().max().unwrap()
MaxOf(c) == CHOOSE m \in Range(c) : \A x \in Range(c) : x <= m

\* code.0.iter().min().unwrap()
MinOf(c) == CHOOSE m \in Range(c) : \A x \in Range(c) : m <= x

---------------------------------------------------------------------------
(* GameConfiguration *)

\* u8::clamp(0, 100)
Clamp100(d) == IF d > 100 THEN 100 ELSE d

generate_game_configuration(b, cc, d) ==
    [column_count |-> cc, base |-> b, min_difficulty |-> Clamp100(d)]

solution_count(gc) == Pow(gc.base, gc.column_count)

\* get_all_column_combinations over the ranges 0..=column_count
get_all_column_combinations_inclusive(gc) ==
    {Range(p) : p \in [1..gc.column_count -> 0..gc.column_count]}

\* the multi cartesian product of column_count copies of 0..column_count,
\* each product collected into a set
get_all_column_combinations(gc) ==
    {Range(p) : p \in [1..gc.column_count -> 0..(gc.column_count - 1)]}

get_column_combinations(gc, length) ==
    {cs \in get_all_column_combinations(gc) : Cardinality(cs) = length}

---------------------------------------------------------------------------
(* u32 arithmetic: a u32 is held as two 16-bit halves, value = hi * 2^16 + lo *)

\* 2^16
Half == 65536

\* x * b in a u32, b being a u8: the low 32 bits of the product, and
\* whether the product (or an earlier one) went beyond them
MulU32(x, b) ==
    LET lo_prod == x.lo * b
        hi_prod == x.hi * b + lo_prod \div Half
    IN  [hi |-> hi_prod % Half, lo |-> lo_prod % Half,
         overflow |-> x.overflow \/ hi_prod >= Half]

RECURSIVE pow_u32(_, _)
\* (b as u32).pow(e): the low 32 bits of b^e and whether b^e overflows u32
pow_u32(b, e) ==
    IF e = 0 THEN [hi |-> 0, lo |-> 1, overflow |-> FALSE]
    ELSE MulU32(pow_u32(b, e - 1), b)

\* GameConfiguration::solution_count in u32 arithmetic
solution_count_u32(g) == pow_u32(g.base, g.column_count)

---------------------------------------------------------------------------
(* Code *)

\* from_shift without code_vec.reverse()
from_shift_unreversed(shift, gc) ==
    [column \in 1..gc.column_count |->
        (shift \div Pow(gc.base, column - 1)) % gc.base]

\* digit `column` (from the right) is (shift / base^column) % base; the
\* vector is then reversed
from_shift(shift, gc) ==
    Reverse([column \in 1..gc.column_count |->
                (shift \div Pow(gc.base, column - 1)) % gc.base])

RECURSIVE get_shift_fold(_, _, _, _)
\* the for_each over the reversed digits: shift += x * base^current_column
get_shift_fold(rev, current_column, shift, gc) ==
    IF current_column >= Len(rev) THEN shift
    ELSE get_shift_fold(rev, current_column + 1,
                        shift + rev[current_column + 1] * Pow(gc.base, current_column),
                        gc)

\* get_shift without .rev()
get_shift_forward(c, gc) == get_shift_fold(c, 0, 0, gc)

get_shift(c, gc) == get_shift_fold(Reverse(c), 0, 0, gc)

\* the codes with column_count digits, each < base (is_solution_compatible)
ValidCodes(gc) == [1..gc.column_count -> 0..(gc.base - 1)]

---------------------------------------------------------------------------
(* Rule *)

OneColumnOps == {"Pair", "Impair", "Lowest", "Highest"}
SumOps == {"SumBelow", "SumEquals", "SumAbove"}

\* Rule::MatchesOp(op(value), columns); value is 0 for the operators without one
MatchesOp(op, value, columns) ==
    [kind |-> "MatchesOp", op |-> op, value |-> value, columns |-> columns,
     count |-> 0]

\* Rule::XColumnsEquals(count, value)
XColumnsEquals(count, value) ==
    [kind |-> "XColumnsEquals", op |-> "none", value |-> value, columns |-> {},
     count |-> count]

RECURSIVE sum_u8(_, _)
\* let mut sum = 0; sum += code.get(*col)? over the columns, sum being a
\* u8: the low 8 bits of the sum and whether an addition went beyond them
sum_u8(c, columns) ==
    IF columns = {} THEN [val |-> 0, overflow |-> FALSE]
    ELSE LET col == CHOOSE x \in columns : TRUE
             rest == sum_u8(c, columns \ {col})
             sum == rest.val + c[col + 1]
         IN  [val |-> sum % (U8Max + 1),
              overflow |-> rest.overflow \/ sum > U8Max]

\* the sum the comparison of a Sum operator reads when no addition aborts
SumCols(c, columns) == sum_u8(c, columns).val

Ok(b) == [err |-> "none", val |-> b]
Err(e) == [err |-> e, val |-> FALSE]

\* the match arm of Operator::Highest without the count of the maximum
EvalHighest_ties(c, columns) ==
    \A col \in columns :
        LET col_value == c[col + 1]
            max_value == MaxOf(c)
        IN  ~(col_value # max_value)

\* the match arm of Operator::Highest
EvalHighest(c, columns) ==
    \A col \in columns :
        LET col_value == c[col + 1]
            max_value == MaxOf(c)
            cnt == CountEq(c, max_value)
        IN  ~(col_value # max_value \/ cnt # 1)

\* the match arm of Operator::Lowest
EvalLowest(c, columns) ==
    \A col \in columns :
        LET col_value == c[col + 1]
            min_value == MinOf(c)
            cnt == CountEq(c, min_value)
        IN  ~(col_value # min_value \/ cnt # 1)

\* Rule::evaluate failing only when no referenced column is inside the code
evaluate_all_outside(rule, c) ==
    IF rule.kind = "XColumnsEquals"
    THEN Ok(CountEq(c, rule.value) = rule.count)
    ELSE IF \A col \in rule.columns : col >= Len(c)
    THEN Err("ColumnIndexOutOfBounds")
    ELSE LET inside == {col \in rule.columns : col < Len(c)}
         IN  CASE rule.op = "Highest"   -> Ok(EvalHighest(c, inside))
               [] rule.op = "Lowest"    -> Ok(EvalLowest(c, inside))
               [] rule.op = "Pair"      -> Ok(\A col \in inside : c[col + 1] % 2 = 0)
               [] rule.op = "Impair"    -> Ok(\A col \in inside : c[col + 1] % 2 = 1)
               [] rule.op = "SumBelow"  -> Ok(SumCols(c, inside) < rule.value)
               [] rule.op = "SumEquals" -> Ok(SumCols(c, inside) = rule.value)
               [] rule.op = "SumAbove"  -> Ok(SumCols(c, inside) > rule.value)

\* Rule::evaluate: Ok(bool), or Err(ColumnIndexOutOfBounds) from Code::get
\* (every operator reads every column of the set with code.get(*col)?)
evaluate(rule, c) ==
    IF rule.kind = "XColumnsEquals"
    THEN Ok(CountEq(c, rule.value) = rule.count)
    ELSE IF \E col \in rule.columns : col >= Len(c)
    THEN Err("ColumnIndexOutOfBounds")
    ELSE CASE rule.op = "Highest"   -> Ok(EvalHighest(c, rule.columns))
           [] rule.op = "Lowest"    -> Ok(EvalLowest(c, rule.columns))
           [] rule.op = "Pair"      -> Ok(\A col \in rule.columns : c[col + 1] % 2 = 0)
           [] rule.op = "Impair"    -> Ok(\A col \in rule.columns : c[col + 1] % 2 = 1)
           [] rule.op = "SumBelow"  -> Ok(SumCols(c, rule.columns) < rule.value)
           [] rule.op = "SumEquals" -> Ok(SumCols(c, rule.columns) = rule.value)
           [] rule.op = "SumAbove"  -> Ok(SumCols(c, rule.columns) > rule.value)

\* the loop of Rule::get_mask over codes decoded without the reversal
get_mask_bits_unreversed(rule, gc) ==
    {i \in 0..(solution_count(gc) - 1) :
        evaluate(rule, from_shift_unreversed(i, gc)).val}

\* the loop of Rule::get_mask: bit i is evaluate(from_shift(i)) for i in
\* 0..solution_count
get_mask_bits(rule, gc) ==
    {i \in 0..(solution_count(gc) - 1) : evaluate(rule, from_shift(i, gc)).val}

\* BitMask::ones(solution_count)
ones(gc) == 0..(solution_count(gc) - 1)

\* trailing_zeros counting the set bit itself
trailing_zeros_one_based(mask) == (CHOOSE i \in mask : \A j \in mask : i <= j) + 1

\* BitMask::trailing_zeros of a mask with a set bit: the lowest set index
trailing_zeros(mask) == CHOOSE i \in mask : \A j \in mask : i <= j

---------------------------------------------------------------------------
(* The rule universe (generate_rules) *)

\* x * y in a u8: the low 8 bits of the product and whether it went
\* beyond them
MulU8(x, y) == [val |-> (x * y) % (U8Max + 1), overflow |-> x * y > U8Max]

\* the range end (len as u8) * gc.base of the Sum thresholds, a u8 product:
\* its low 8 bits
SumThresholdEnd(cs, gc) == MulU8(Cardinality(cs), gc.base).val

\* the rules pushed before the filter
enumerate_rules(gc) ==
    {MatchesOp(op, 0, cs) : op \in OneColumnOps, cs \in get_column_combinations(gc, 1)}
    \cup UNION {{MatchesOp(op, n, cs) : op \in SumOps, n \in 0..(SumThresholdEnd(cs, gc) - 1)} :
                cs \in get_all_column_combinations(gc)}
    \cup {XColumnsEquals(column, value) :
            column \in 0..gc.column_count, value \in 0..(gc.base - 1)}

\* the (base, column_count) pairs explored
ConfigKeys ==
    {k \in (0..MaxBase) \X (1..MaxCols) : Pow(k[1], k[2]) <= MaxSolutionCount}
    \cup {k \in (1..PureMaxBase) \X (1..PureMaxCols) : Pow(k[1], k[2]) <= PureMaxSolutionCount}
    \cup {<< ScenarioBase, ScenarioColumnCount >>}

\* the GameConfiguration of a (base, column_count) pair
KeyConfiguration(k) == generate_game_configuration(k[1], k[2], 0)

\* get_mask_bits of every enumerated rule of every configuration explored,
\* computed once (a mask depends on base and column_count alone)
MaskTable ==
    [x \in UNION {{<< k, r >> : r \in enumerate_rules(KeyConfiguration(k))} : k \in ConfigKeys} |->
        get_mask_bits(x[2], KeyConfiguration(x[1]))]

\* Rule::get_mask of an enumerated rule
get_mask(rule, gc) == MaskTable[<< << gc.base, gc.column_count >>, rule >>]

\* the closure of rules.retain with >= written for >
retain_rule_ge(mask, gc) ==
    LET ones_count == Cardinality(mask)
        difficulty == (ones_count * 100) \div solution_count(gc)
    IN  ones_count > 0 /\ difficulty >= gc.min_difficulty

\* the closure of rules.retain dividing before it multiplies
retain_rule_div_first(mask, gc) ==
    LET ones_count == Cardinality(mask)
        difficulty == (ones_count \div solution_count(gc)) * 100
    IN  ones_count > 0 /\ difficulty > gc.min_difficulty

\* the closure of rules.retain: ones_count * 100 / solution_count (integer
\* division) against min_difficulty
retain_rule(mask, gc) ==
    LET ones_count == Cardinality(mask)
        difficulty == (ones_count * 100) \div solution_count(gc)
    IN  ones_count > 0 /\ difficulty > gc.min_difficulty

\* the rules left by rules.retain
filter_rules(gc) == {r \in enumerate_rules(gc) : retain_rule(get_mask(r, gc), gc)}

\* the retain closure divides by solution_count for every enumerated rule
generate_rules_panics(gc) == solution_count(gc) = 0 /\ enumerate_rules(gc) # {}

---------------------------------------------------------------------------
(* Verifier selection and cleanup (generate_verificators) *)

Verifier(rule, mask) == [rule |-> rule, mask |-> mask]

RECURSIVE InsertByKey(_, _)
\* v placed after every element whose key (count_ones) is <= its own
InsertByKey(sorted, v) ==
    IF sorted = << >> THEN << v >>
    ELSE IF Cardinality(Head(sorted).mask) <= Cardinality(v.mask)
         THEN << Head(sorted) >> \o InsertByKey(Tail(sorted), v)
         ELSE << v >> \o sorted

RECURSIVE SortByOnes(_)
\* sort_by_key(|v| v.mask.count_ones()): stable, ascending
SortByOnes(vs) ==
    IF vs = << >> THEN << >>
    ELSE InsertByKey(SortByOnes(SubSeq(vs, 1, Len(vs) - 1)), vs[Len(vs)])

\* sort_by_key without the reverse that follows it
sort_verificators_unreversed(vs) == SortByOnes(vs)

\* sort_by_key followed by reverse
sort_verificators(vs) == Reverse(SortByOnes(vs))

RECURSIVE AndMasks(_, _)
\* other_bitmask: ones, then &= the mask of every element of vs
AndMasks(vs, gc) ==
    IF vs = << >> THEN ones(gc)
    ELSE Head(vs).mask \cap AndMasks(Tail(vs), gc)

\* Others without the test other_verificator != v
Others_with_self(before, v) == before

\* the verifiers of `before` that differ from v (other_verificator != v)
Others(before, v) == LET Differs(it) == it # v IN SelectSeq(before, Differs)

\* is_rule_useful with & written for |
is_rule_useful_and(v, before, gc) ==
    (v.mask \cap AndMasks(Others(before, v), gc)) # v.mask

\* &verificator_bitmask | &other_bitmask != verificator_bitmask
is_rule_useful(v, before, gc) ==
    (v.mask \cup AndMasks(Others(before, v), gc)) # v.mask

\* what the retain closure computes for the verifier v it visits
Visit(v, before, gc) ==
    [v |-> v, other_bitmask |-> AndMasks(Others(before, v), gc),
     is_rule_useful |-> is_rule_useful(v, before, gc)]

RECURSIVE retain_useful_fixed(_, _, _, _, _)
\* retain_useful without the removal from verificators_before_cleanup:
\* every verifier is compared against the whole accepted list
retain_useful_fixed(i, clone, before, kept, gc) ==
    IF i > Len(clone) THEN [final |-> kept, before |-> before, visits |-> << >>]
    ELSE LET visit == Visit(clone[i], before, gc)
             rest == retain_useful_fixed(i + 1, clone, before,
                        IF visit.is_rule_useful THEN Append(kept, clone[i]) ELSE kept, gc)
         IN  [rest EXCEPT !.visits = << visit >> \o @]

RECURSIVE retain_useful(_, _, _, _, _)
\* final_verificators.retain over the clone, element i onwards: a verifier
\* found useless is also removed from verificators_before_cleanup, which
\* the later elements are compared against; yields both lists and what
\* the closure computed at each visit
retain_useful(i, clone, before, kept, gc) ==
    IF i > Len(clone) THEN [final |-> kept, before |-> before, visits |-> << >>]
    ELSE LET visit == Visit(clone[i], before, gc)
             rest == IF visit.is_rule_useful
                     THEN retain_useful(i + 1, clone, before, Append(kept, clone[i]), gc)
                     ELSE retain_useful(i + 1, clone, Others(before, clone[i]), kept, gc)
         IN  [rest EXCEPT !.visits = << visit >> \o @]

\* the cleanup: sort, reverse, clone, retain
cleanup(accepted, gc) ==
    LET sorted == sort_verificators(accepted)
    IN  retain_useful(1, sorted, sorted, << >>, gc)

---------------------------------------------------------------------------
(* Criteria (Rule::get_similar, generate_criterias) *)

Description(text, columns, count, op, value) ==
    [text |-> text, columns |-> columns, count |-> count, op |-> op, value |-> value]

Group(description, rs) == [description |-> description, rules |-> rs]

\* the same operator over every column set of the same size
SameSizeRules(rule, gc) ==
    {MatchesOp(rule.op, rule.value, cs) :
        cs \in get_column_combinations(gc, Cardinality(rule.columns))}

\* equal_rules with the range 0..column_count
EqualRules_exclusive(rule, gc) ==
    {XColumnsEquals(i, rule.value) : i \in 0..(gc.column_count - 1)}

\* equal_rules with the range 0..count + 1, count being the rule's own
EqualRules_upto_count(rule, gc) ==
    {XColumnsEquals(i, rule.value) : i \in 0..rule.count}

\* equal_rules: XColumnsEquals(i, value) for i in 0..column_count + 1
EqualRules(rule, gc) == {XColumnsEquals(i, rule.value) : i \in 0..gc.column_count}

\* Rule::get_similar: the (description, rules) groups of a rule
get_similar(rule, gc) ==
    IF rule.kind = "XColumnsEquals"
    THEN << Group(Description("There are X columns that equals", {}, 0, "none", rule.value),
                  EqualRules(rule, gc)) >>
    ELSE IF rule.op \in {"Pair", "Impair"}
    THEN << Group(Description("Column is pair or impair", {}, 0, "none", 0),
                  {MatchesOp("Pair", 0, rule.columns), MatchesOp("Impair", 0, rule.columns)}),
            Group(Description("One of the column is pair", {}, 0, "none", 0),
                  SameSizeRules(rule, gc)) >>
    ELSE IF rule.op = "Lowest"
    THEN << Group(Description("One of the column is the lowest", {}, 0, "none", 0),
                  SameSizeRules(rule, gc)) >>
    ELSE IF rule.op = "Highest"
    THEN << Group(Description("One of the column is the highest", {}, 0, "none", 0),
                  SameSizeRules(rule, gc)) >>
    ELSE << Group(Description("Column(s) sum is below, equal or above",
                              rule.columns, 0, "none", rule.value),
                  {MatchesOp(op, rule.value, rule.columns) : op \in SumOps}),
            Group(Description("Sum of columns is", {}, Cardinality(rule.columns),
                              rule.op, rule.value),
                  SameSizeRules(rule, gc)) >>

\* the group choices open to generate_criterias: one index per verifier
GroupChoices(verificators, gc) ==
    {ch \in [1..Len(verificators) -> 1..2] :
        \A i \in 1..Len(verificators) :
            ch[i] <= Len(get_similar(verificators[i].rule, gc))}

\* generate_criterias, the random group of verifier i being number choice[i]
generate_criterias(verificators, gc, choice) ==
    [i \in 1..Len(verificators) |->
        LET g == get_similar(verificators[i].rule, gc)[choice[i]]
        IN  [verif |-> verificators[i], description |-> g.description,
             rules |-> g.rules]]

---------------------------------------------------------------------------
(* generate_game as a state machine *)

gc == generate_game_configuration(base, column_count, difficulty_pct)

NoCall == [fn |-> "none", arg |-> 0, rule |-> XColumnsEquals(0, 0), ret |-> 0]

\* no iteration of the selection loop is under way
NoIteration == [bitmask_and |-> {}, msg |-> "none"]

Idle ==
    /\ rules = {}
    /\ final_bitmask = {}
    /\ verificators_before_cleanup = << >>
    /\ final_verificators = << >>
    /\ visited = << >>
    /\ iteration = NoIteration
    /\ code = << >>
    /\ criterias = << >>
    /\ outcome = "running"
    /\ call = NoCall

Init ==
    /\ base \in 0..MaxBase
    /\ column_count \in 1..MaxCols
    /\ Pow(base, column_count) <= MaxSolutionCount
    /\ difficulty_pct \in Difficulties
    /\ pc = "start"
    /\ Idle

\* a panic unwinds generate_game: nothing is returned
Panic ==
    /\ pc' = "stopped"
    /\ outcome' = "panic"
    /\ UNCHANGED << base, column_count, difficulty_pct, rules, final_bitmask,
                    verificators_before_cleanup, final_verificators, visited, iteration, code,
                    criterias, call >>

\* generate_rules divides by a solution_count of zero
GenerateRulesPanic ==
    /\ pc = "start"
    /\ generate_rules_panics(gc)
    /\ Panic

\* generate_rules returns; generate_verificators starts with all ones
GenerateRules ==
    /\ pc = "start"
    /\ ~generate_rules_panics(gc)
    /\ rules' = filter_rules(gc)
    /\ final_bitmask' = ones(gc)
    /\ pc' = "select"
    /\ UNCHANGED << base, column_count, difficulty_pct, verificators_before_cleanup,
                    final_verificators, visited, iteration, code, criterias, outcome, call >>

\* one iteration of the selection loop on an empty ruleset: choose() is
\* None and unwrap() panics
PickNone ==
    /\ pc = "select"
    /\ Cardinality(final_bitmask) > 1
    /\ rules = {}
    /\ Panic

\* msg with both tests left out: every drawn rule is chosen
msg_always_chosen(bitmask_and, W) == "chosen."

\* msg with the test bitmask_and.count_ones() == 0 left out
msg_without_no_solution(bitmask_and, W) ==
    IF bitmask_and = W THEN "skipped (0 impr)." ELSE "chosen."

\* msg with the test bitmask_and == final_bitmask left out
msg_without_no_improvement(bitmask_and, W) ==
    IF Cardinality(bitmask_and) = 0 THEN "skipped (0 sols)." ELSE "chosen."

\* the branch an iteration takes on bitmask_and = W & rule_bitmask, named by
\* the msg it prints
msg(bitmask_and, W) ==
    IF Cardinality(bitmask_and) = 0 THEN "skipped (0 sols)."
    ELSE IF bitmask_and = W THEN "skipped (0 impr)."
    ELSE "chosen."

\* one iteration of the selection loop: a rule drawn at random is skipped
\* (no solution left, or no improvement) or accepted
PickRule ==
    /\ pc = "select"
    /\ Cardinality(final_bitmask) > 1
    /\ \E rule \in rules :
        LET rule_bitmask == get_mask(rule, gc)
            bitmask_and == final_bitmask \cap rule_bitmask
        IN  /\ iteration' = [bitmask_and |-> bitmask_and,
                             msg |-> msg(bitmask_and, final_bitmask)]
            /\ IF msg(bitmask_and, final_bitmask) # "chosen."
               THEN UNCHANGED << verificators_before_cleanup, final_bitmask >>
               ELSE /\ verificators_before_cleanup' =
                        Append(verificators_before_cleanup, Verifier(rule, rule_bitmask))
                    /\ final_bitmask' = bitmask_and
    /\ UNCHANGED << base, column_count, difficulty_pct, pc, rules, final_verificators,
                    visited, code, criterias, outcome, call >>

\* the loop ends: sort, cleanup and the decoding of the remaining bit
Cleanup ==
    /\ pc = "select"
    /\ Cardinality(final_bitmask) <= 1
    /\ LET cleaned == cleanup(verificators_before_cleanup, gc)
       IN  /\ verificators_before_cleanup' = cleaned.before
           /\ final_verificators' = cleaned.final
           /\ visited' = cleaned.visits
    /\ iteration' = NoIteration
    /\ code' = from_shift(trailing_zeros(final_bitmask), gc)
    /\ pc' = "complexity"
    /\ UNCHANGED << base, column_count, difficulty_pct, rules, final_bitmask,
                    criterias, outcome, call >>

\* mean_complexity = sum_complexity / verificators.len() with no verifier
MeanComplexityPanic ==
    /\ pc = "complexity"
    /\ Len(final_verificators) = 0
    /\ Panic

\* the criteria are generated and the Game is returned
AssembleGame ==
    /\ pc = "complexity"
    /\ Len(final_verificators) # 0
    /\ \E choice \in GroupChoices(final_verificators, gc) :
        criterias' = generate_criterias(final_verificators, gc, choice)
    /\ pc' = "stopped"
    /\ outcome' = "game"
    /\ UNCHANGED << base, column_count, difficulty_pct, rules, final_bitmask,
                    verificators_before_cleanup, final_verificators, visited, iteration, code, call >>

Next ==
    \/ GenerateRulesPanic
    \/ GenerateRules
    \/ PickNone
    \/ PickRule
    \/ Cleanup
    \/ MeanComplexityPanic
    \/ AssembleGame

Spec == Init /\ [][Next]_vars

\* the Game returned by generate_game
Game == [configuration |-> gc, criterias |-> criterias, code |-> code]

---------------------------------------------------------------------------
(* Two calls of generate_game with the same arguments *)

\* generate_game has returned a Game; the caller keeps it and calls
\* generate_game(base, column_count, difficulty_pct) a second time.  The
\* function takes no randomness source: every draw of the second call comes
\* again from rand::thread_rng(), the choices of PickRule and AssembleGame.
CallAgain ==
    /\ pc = "stopped"
    /\ outcome = "game"
    /\ call = NoCall
    /\ call' = [fn |-> "generate_game",
                arg |-> << base, column_count, difficulty_pct >>,
                rule |-> NoCall.rule, ret |-> Game]
    /\ pc' = "start"
    /\ rules' = {}
    /\ final_bitmask' = {}
    /\ verificators_before_cleanup' = << >>
    /\ final_verificators' = << >>
    /\ visited' = << >>
    /\ iteration' = NoIteration
    /\ code' = << >>
    /\ criterias' = << >>
    /\ outcome' = "running"
    /\ UNCHANGED << base, column_count, difficulty_pct >>

TwoCallsInit ==
    /\ Init
    /\ Pow(base, column_count) <= MaxTwoCallsSolutionCount

TwoCallsNext == Next \/ CallAgain

SpecTwoCalls == TwoCallsInit /\ [][TwoCallsNext]_vars

---------------------------------------------------------------------------
(* The clients: the test and bid commands on a generated Game *)

\* Game::is_solution_compatible
is_solution_compatible(game, c) ==
    /\ ~(Len(c) # game.configuration.column_count)
    /\ ~(\E i \in 1..Len(c) : c[i] >= game.configuration.base)

\* equality of two Codes (solution == game.code): the same digits in the
\* same order
CodeEq(a, b) == a = b

\* the codes a player may type: up to column_count + 1 digits, each <= base
TypedCodes(g) ==
    UNION {[1..n -> 0..g.base] : n \in 0..(g.column_count + 1)}

\* the criterion digits a player may type after the code: one or two
\* indices, Len(criterias) being one past the last criterion
TypedCriterias(game) ==
    UNION {[1..n -> 0..Len(game.criterias)] : n \in 1..2}

\* the test of the terminal UI on a decoy of criterion crit_index
tui_test_result_decoy(game, c, crit_index) ==
    LET crit == game.criterias[crit_index + 1]
        shown == IF crit.rules \ {crit.verif.rule} = {} THEN crit.rules
                 ELSE crit.rules \ {crit.verif.rule}
    IN  evaluate(CHOOSE r \in shown : TRUE, c).val

\* self.game.criterias[crit_index].verif.rule.evaluate(code).unwrap()
tui_test_result(game, c, crit_index) ==
    evaluate(game.criterias[crit_index + 1].verif.rule, c).val

\* the GameLog entries pushed by the second loop of process_test_command
tui_test_logs(game, c, crits) ==
    [k \in 1..Len(crits) |->
        [code |-> c, crit_index |-> crits[k],
         result |-> tui_test_result(game, c, crits[k])]]

\* a typed character that is not numeric (a letter), and one that is
\* numeric without being a decimal digit; the decimal digits are 0..9
Letter == -1
OtherNumeral == -2

\* char::is_numeric
is_numeric(crit) == crit # Letter

\* char::to_digit(10): Some(n) for a decimal digit, None (NoDigit) otherwise
NoDigit == -1
to_digit(crit) == IF crit >= 0 THEN crit ELSE NoDigit

\* the first loop of process_test_command: some character of criterias
\* makes it return Status::Error
criterias_rejected(game, crits) ==
    \E k \in 1..Len(crits) :
        \/ ~is_numeric(crits[k])
        \/ to_digit(crits[k]) = NoDigit
        \/ to_digit(crits[k]) >= Len(game.criterias)

\* process_test_command with one loop: each criterion is checked when its
\* log is about to be pushed
process_test_command_one_loop(game, c, crits) ==
    IF c = << >> \/ crits = << >>
    THEN [status |-> "Error", logs |-> << >>, solution |-> "None"]
    ELSE IF ~is_solution_compatible(game, c)
    THEN [status |-> "Error", logs |-> << >>, solution |-> "None"]
    ELSE IF criterias_rejected(game, crits)
    THEN LET first == CHOOSE k \in 1..Len(crits) :
                        /\ criterias_rejected(game, << crits[k] >>)
                        /\ \A j \in 1..(k - 1) : ~criterias_rejected(game, << crits[j] >>)
         IN  [status |-> "Error",
              logs |-> tui_test_logs(game, c, SubSeq(crits, 1, first - 1)),
              solution |-> "None"]
    ELSE [status |-> "Valid", logs |-> tui_test_logs(game, c, crits),
          solution |-> "None"]

\* GameData::process_test_command: Status::Error and no log pushed unless
\* both arguments are there, the code is compatible and every character of
\* criterias is a decimal digit < criterias.len(); logs is the list of the
\* GameLog entries pushed
process_test_command(game, c, crits) ==
    IF c = << >> \/ crits = << >>
    THEN [status |-> "Error", logs |-> << >>, solution |-> "None"]
    ELSE IF ~is_solution_compatible(game, c)
    THEN [status |-> "Error", logs |-> << >>, solution |-> "None"]
    ELSE IF criterias_rejected(game, crits)
    THEN [status |-> "Error", logs |-> << >>, solution |-> "None"]
    ELSE [status |-> "Valid", logs |-> tui_test_logs(game, c, crits),
          solution |-> "None"]

\* process_bid_command with != written for ==
process_bid_command_negated(game, c) ==
    IF ~is_solution_compatible(game, c)
    THEN [status |-> "Error", logs |-> << >>, solution |-> "None"]
    ELSE [status |-> "Valid", logs |-> << >>, solution |-> ~CodeEq(c, game.code)]

\* GameData::process_bid_command: self.solution = Some(solution == game.code)
process_bid_command(game, c) ==
    IF ~is_solution_compatible(game, c)
    THEN [status |-> "Error", logs |-> << >>, solution |-> "None"]
    ELSE [status |-> "Valid", logs |-> << >>, solution |-> CodeEq(c, game.code)]

\* the line client's test: evaluate(code_test).unwrap_or(false) on the true
\* rule of criterion crit_id
cli_test_result(game, c, crit_id) ==
    LET res == evaluate(game.criterias[crit_id + 1].verif.rule, c)
    IN  IF res.err = "none" THEN res.val ELSE FALSE

\* the line client's bid: solution == game.code
cli_bid_result(game, c) == CodeEq(c, game.code)

\* a Game has been returned and no command has been played on it yet
GameInHand == pc = "stopped" /\ outcome = "game" /\ call = NoCall

\* a command only reads the Game
ClientFrame ==
    UNCHANGED << base, column_count, difficulty_pct, pc, rules, final_bitmask,
                 verificators_before_cleanup, final_verificators, visited, iteration, code, criterias,
                 outcome >>

\* "t <code> <criterias>" in the terminal UI
TuiTest ==
    /\ GameInHand
    /\ \E c \in TypedCodes(gc), crits \in TypedCriterias(Game) :
        call' = [fn |-> "tui_test", arg |-> [code |-> c, crits |-> crits],
                 rule |-> NoCall.rule, ret |-> process_test_command(Game, c, crits)]
    /\ ClientFrame

\* "b <code>" in the terminal UI
TuiBid ==
    /\ GameInHand
    /\ \E c \in TypedCodes(gc) :
        call' = [fn |-> "tui_bid", arg |-> [code |-> c, crits |-> << >>],
                 rule |-> NoCall.rule, ret |-> process_bid_command(Game, c)]
    /\ ClientFrame

\* Action::TestCode of the line client: read_valid_code_from_terminal only
\* returns a compatible code, read_from_terminal a criterion in range
CliTest ==
    /\ GameInHand
    /\ \E c \in TypedCodes(gc), crit_id \in 0..(Len(criterias) - 1) :
        /\ is_solution_compatible(Game, c)
        /\ call' = [fn |-> "cli_test", arg |-> [code |-> c, crits |-> << crit_id >>],
                    rule |-> NoCall.rule,
                    ret |-> [status |-> "Valid", logs |-> << >>,
                             solution |-> cli_test_result(Game, c, crit_id)]]
    /\ ClientFrame

\* Action::ProposeSolution of the line client
CliBid ==
    /\ GameInHand
    /\ \E c \in TypedCodes(gc) :
        /\ is_solution_compatible(Game, c)
        /\ call' = [fn |-> "cli_bid", arg |-> [code |-> c, crits |-> << >>],
                    rule |-> NoCall.rule,
                    ret |-> [status |-> "Valid", logs |-> << >>,
                             solution |-> cli_bid_result(Game, c)]]
    /\ ClientFrame

ClientNext == Next \/ TuiTest \/ TuiBid \/ CliTest \/ CliBid

SpecClient == Init /\ [][ClientNext]_vars

---------------------------------------------------------------------------
(* The command line of the terminal UI (GameData::process_commands) *)

\* a command line split at its spaces: the command and its two arguments
Line(command, code_str, crits) ==
    [command |-> command, code_str |-> code_str, criterias |-> crits]

\* command_line after command_line.clear()
ClearedLine == Line("", << >>, << >>)

\* the characters a player may type in criterias: a letter, a numeral that
\* is not a decimal digit, and the digits up to criterias.len()
TypedCriteriaChars(game) == {Letter, OtherNumeral} \cup 0..Len(game.criterias)

\* the lines a player may type: a test with no, one or two criteria, a bid,
\* and a command that does not exist
TypedLines(game) ==
    {Line("t", c, crits) :
        c \in TypedCodes(game.configuration),
        crits \in UNION {[1..n -> TypedCriteriaChars(game)] : n \in 0..2}}
    \cup {Line("b", c, << >>) : c \in TypedCodes(game.configuration)}
    \cup {Line("x", << >>, << >>)}

\* GameData::process_commands on command_line = line, self.logs = logs:
\* the command's status, and the logs and the command line it leaves
process_commands(game, logs, line) ==
    LET done == CASE line.command = "t" ->
                        process_test_command(game, line.code_str, line.criterias)
                  [] line.command = "b" ->
                        process_bid_command(game, line.code_str)
                  [] OTHER -> [status |-> "Error", logs |-> << >>, solution |-> "None"]
    IN  [command_status |-> done.status,
         logs |-> logs \o done.logs,
         last_command_line |-> line,
         command_line |-> IF done.status = "Valid" THEN ClearedLine ELSE line]

\* the test of the secret code against criterion 0, the first command after
\* which a second one is explored
FirstTest == Line("t", code, << 0 >>)

\* the player validates a command line, on a fresh Game or after FirstTest
TuiCommand ==
    /\ pc = "stopped"
    /\ outcome = "game"
    /\ \/ call = NoCall
       \/ /\ call.fn = "process_commands"
          /\ call.arg.logs = << >>
          /\ call.arg.command_line = FirstTest
    /\ \E line \in TypedLines(Game) :
        LET logs == IF call = NoCall THEN << >> ELSE call.ret.logs
        IN  call' = [fn |-> "process_commands",
                     arg |-> [logs |-> logs, command_line |-> line],
                     rule |-> NoCall.rule,
                     ret |-> process_commands(Game, logs, line)]
    /\ ClientFrame

TuiInit == Init /\ Pow(base, column_count) <= MaxTuiSolutionCount

TuiNext == Next \/ TuiCommand

SpecTui == TuiInit /\ [][TuiNext]_vars

---------------------------------------------------------------------------
(* Serialization of the Game (derive(Serialize, Deserialize)) *)
(* A struct goes on the wire as the sequence of its << name, value >>      *)
(* pairs, a newtype as its inner value, a Vec or HashSet as a sequence, an *)
(* enum variant as << name, fields... >>.                                  *)

RECURSIVE ascending(_)
\* the elements of a set of numbers, smallest first
ascending(S) ==
    IF S = {} THEN << >>
    ELSE LET m == CHOOSE x \in S : \A y \in S : x <= y
         IN  << m >> \o ascending(S \ {m})

RECURSIVE listed(_)
\* the elements of a set, each once, as a sequence
listed(S) ==
    IF S = {} THEN << >>
    ELSE LET x == CHOOSE y \in S : TRUE IN << x >> \o listed(S \ {x})

\* the value of field name of a struct on the wire
field(w, name) == w[CHOOSE i \in 1..Len(w) : w[i][1] = name][2]

\* ColumnSet(HashSet<Column>): the columns in the iteration order of the
\* hash set, which is not fixed (here ascending or descending)
ser_column_set(cs, order) ==
    IF order = "asc" THEN ascending(cs) ELSE Reverse(ascending(cs))

\* the HashSet collected from the sequence
de_column_set(w) == Range(w)

\* Operator: a unit variant, or a variant with its u8
ser_operator(rule) ==
    IF rule.op \in SumOps THEN << rule.op, rule.value >> ELSE << rule.op >>

\* Rule: MatchesOp(Operator, ColumnSet) or XColumnsEquals(u8, u8)
ser_rule(rule, order) ==
    IF rule.kind = "MatchesOp"
    THEN << "MatchesOp", ser_operator(rule), ser_column_set(rule.columns, order) >>
    ELSE << "XColumnsEquals", rule.count, rule.value >>

\* de_rule reading the two u8 of XColumnsEquals in the other order
de_rule_swapped(w) ==
    IF w[1] = "MatchesOp"
    THEN MatchesOp(w[2][1], IF Len(w[2]) = 2 THEN w[2][2] ELSE 0, de_column_set(w[3]))
    ELSE XColumnsEquals(w[3], w[2])

de_rule(w) ==
    IF w[1] = "MatchesOp"
    THEN MatchesOp(w[2][1], IF Len(w[2]) = 2 THEN w[2][2] ELSE 0, de_column_set(w[3]))
    ELSE XColumnsEquals(w[2], w[3])

\* BitMask<u64>: its length and its bits
ser_mask(mask, g) ==
    << << "len", solution_count(g) >>,
       << "bits", [i \in 1..solution_count(g) |-> (i - 1) \in mask] >> >>

de_mask(w) == {i - 1 : i \in {j \in 1..field(w, "len") : field(w, "bits")[j]}}

\* Verifier { rule, mask }
ser_verifier(v, g, order) ==
    << << "rule", ser_rule(v.rule, order) >>, << "mask", ser_mask(v.mask, g) >> >>

de_verifier(w) == Verifier(de_rule(field(w, "rule")), de_mask(field(w, "mask")))

\* Rules(Vec<Rule>)
ser_rules(rs, order) ==
    LET l == listed(rs) IN [i \in 1..Len(l) |-> ser_rule(l[i], order)]

de_rules(w) == {de_rule(w[i]) : i \in 1..Len(w)}

\* Criteria { verif, description, rules }
ser_criteria(crit, g, order) ==
    << << "verif", ser_verifier(crit.verif, g, order) >>,
       << "description", crit.description >>,
       << "rules", ser_rules(crit.rules, order) >> >>

de_criteria(w) ==
    [verif |-> de_verifier(field(w, "verif")),
     description |-> field(w, "description"),
     rules |-> de_rules(field(w, "rules"))]

\* GameConfiguration { column_count, base, min_difficulty }
ser_configuration(g) ==
    << << "column_count", g.column_count >>, << "base", g.base >>,
       << "min_difficulty", g.min_difficulty >> >>

de_configuration(w) ==
    [column_count |-> field(w, "column_count"), base |-> field(w, "base"),
     min_difficulty |-> field(w, "min_difficulty")]

\* Game { configuration, criterias, code }
ser_game(game, order) ==
    << << "configuration", ser_configuration(game.configuration) >>,
       << "criterias", [i \in 1..Len(game.criterias) |->
                            ser_criteria(game.criterias[i], game.configuration, order)] >>,
       << "code", game.code >> >>

de_game(w) ==
    [configuration |-> de_configuration(field(w, "configuration")),
     criterias |-> [i \in 1..Len(field(w, "criterias")) |->
                        de_criteria(field(w, "criterias")[i])],
     code |-> field(w, "code")]

\* the server sends the Game (Json(game)) and the client rebuilds it
\* (response.json())
TransportGame ==
    /\ GameInHand
    /\ \E order \in {"asc", "desc"} :
        call' = [fn |-> "serde", arg |-> ser_game(Game, order),
                 rule |-> NoCall.rule, ret |-> de_game(ser_game(Game, order))]
    /\ ClientFrame

TransportNext == Next \/ TransportGame

SpecTransport == Init /\ [][TransportNext]_vars

---------------------------------------------------------------------------
(* solution_count over the whole range of base *)

SolutionCountInit ==
    /\ base \in 0..U8Max
    /\ column_count \in 0..MaxCountedCols
    /\ difficulty_pct = 0
    /\ pc = "start"
    /\ Idle

\* solution_count() returns n to generate_game, which goes on with it
SolutionCountReturns(n) ==
    /\ call' = [fn |-> "solution_count", arg |-> << base, column_count >>,
                rule |-> NoCall.rule, ret |-> n]
    /\ pc' = "counted"
    /\ UNCHANGED << base, column_count, difficulty_pct, rules, final_bitmask,
                    verificators_before_cleanup, final_verificators, visited, iteration, code, criterias,
                    outcome >>

\* base^column_count fits a u32
SolutionCountFits ==
    /\ pc = "start"
    /\ ~solution_count_u32(gc).overflow
    /\ SolutionCountReturns(solution_count_u32(gc))

\* base^column_count does not fit and the build checks overflow (debug):
\* pow panics
SolutionCountOverflowPanics ==
    /\ pc = "start"
    /\ solution_count_u32(gc).overflow
    /\ Panic

\* base^column_count does not fit and the build does not check overflow
\* (release): pow wraps and generate_game goes on with the low 32 bits
SolutionCountWraps ==
    /\ pc = "start"
    /\ solution_count_u32(gc).overflow
    /\ SolutionCountReturns(solution_count_u32(gc))

SolutionCountNext ==
    SolutionCountFits \/ SolutionCountOverflowPanics \/ SolutionCountWraps

SpecSolutionCount == SolutionCountInit /\ [][SolutionCountNext]_vars

---------------------------------------------------------------------------
(* The u8 arithmetic of the Sum rules over the whole range of base *)

SumWidthInit ==
    /\ base \in 0..U8Max
    /\ column_count \in 1..MaxSumCols
    /\ difficulty_pct = 0
    /\ pc = "start"
    /\ Idle

\* the digits tried in a code: the lowest, the middle and the highest of
\* the base
SumDigits(g) == {d \in {0, g.base \div 2, g.base - 1} : d >= 0 /\ d < g.base}

SumCodes(g) == [1..g.column_count -> SumDigits(g)]

\* the Sum rules tried: every operator over every column combination, with
\* a low and a high threshold
SumRules(g) ==
    {MatchesOp(op, n, cs) : op \in SumOps, n \in {1, U8Max - 1},
                           cs \in get_all_column_combinations(g)}

\* the arithmetic went through: the value is handed back
SumWidthReturns(fn, arg, rule, ret) ==
    /\ call' = [fn |-> fn, arg |-> arg, rule |-> rule, ret |-> ret]
    /\ pc' = "returned"
    /\ UNCHANGED << base, column_count, difficulty_pct, rules, final_bitmask,
                    verificators_before_cleanup, final_verificators, visited,
                    iteration, code, criterias, outcome >>

\* the arithmetic overflowed in a build that checks overflow (debug): the
\* thread panics inside the call
SumWidthPanics(fn, arg, rule) ==
    /\ call' = [fn |-> fn, arg |-> arg, rule |-> rule, ret |-> 0]
    /\ pc' = "stopped"
    /\ outcome' = "panic"
    /\ UNCHANGED << base, column_count, difficulty_pct, rules, final_bitmask,
                    verificators_before_cleanup, final_verificators, visited,
                    iteration, code, criterias >>

\* generate_rules computes the range end (len as u8) * gc.base for a column
\* combination of len columns, and the product fits a u8
ThresholdEndFits ==
    /\ pc = "start"
    /\ \E cs \in get_all_column_combinations(gc) :
        /\ ~MulU8(Cardinality(cs), gc.base).overflow
        /\ SumWidthReturns("threshold_end", cs, NoCall.rule, SumThresholdEnd(cs, gc))

\* the product does not fit and the build checks overflow
ThresholdEndOverflowPanics ==
    /\ pc = "start"
    /\ \E cs \in get_all_column_combinations(gc) :
        /\ MulU8(Cardinality(cs), gc.base).overflow
        /\ SumWidthPanics("threshold_end", cs, NoCall.rule)

\* the product does not fit and the build does not check overflow
\* (release): the range ends at the low 8 bits
ThresholdEndWraps ==
    /\ pc = "start"
    /\ \E cs \in get_all_column_combinations(gc) :
        /\ MulU8(Cardinality(cs), gc.base).overflow
        /\ SumWidthReturns("threshold_end", cs, NoCall.rule, SumThresholdEnd(cs, gc))

\* evaluate of a Sum rule on a valid code whose digit sum fits a u8
EvaluateSumFits ==
    /\ pc = "start"
    /\ \E rule \in SumRules(gc), c \in SumCodes(gc) :
        /\ ~sum_u8(c, rule.columns).overflow
        /\ SumWidthReturns("evaluate", c, rule, evaluate(rule, c))

\* the digit sum does not fit and the build checks overflow
EvaluateSumOverflowPanics ==
    /\ pc = "start"
    /\ \E rule \in SumRules(gc), c \in SumCodes(gc) :
        /\ sum_u8(c, rule.columns).overflow
        /\ SumWidthPanics("evaluate", c, rule)

\* the digit sum does not fit and the build does not check overflow: the
\* comparison reads the low 8 bits
EvaluateSumWraps ==
    /\ pc = "start"
    /\ \E rule \in SumRules(gc), c \in SumCodes(gc) :
        /\ sum_u8(c, rule.columns).overflow
        /\ SumWidthReturns("evaluate", c, rule, evaluate(rule, c))

\* generate_rules pushes the whole rule list; a range end that does not fit
\* has wrapped (overflow checks off) when there is one
EnumerateRules ==
    /\ pc = "start"
    /\ SumWidthReturns("generate_rules", << >>, NoCall.rule, enumerate_rules(gc))

\* generate_rules in a build that checks overflow, for a configuration with
\* a range end that does not fit
EnumerateRulesOverflowPanics ==
    /\ pc = "start"
    /\ \E cs \in get_all_column_combinations(gc) :
            MulU8(Cardinality(cs), gc.base).overflow
    /\ SumWidthPanics("generate_rules", << >>, NoCall.rule)

SumWidthNext ==
    \/ EnumerateRules
    \/ EnumerateRulesOverflowPanics
    \/ ThresholdEndFits
    \/ ThresholdEndOverflowPanics
    \/ ThresholdEndWraps
    \/ EvaluateSumFits
    \/ EvaluateSumOverflowPanics
    \/ EvaluateSumWraps

SpecSumWidth == SumWidthInit /\ [][SumWidthNext]_vars

---------------------------------------------------------------------------
(* The pure functions of Code and Rule, applied to bounded inputs *)

PureInit ==
    /\ base \in 1..PureMaxBase
    /\ column_count \in 1..PureMaxCols
    /\ Pow(base, column_count) <= PureMaxSolutionCount
    /\ difficulty_pct = 0
    /\ pc = "pure"
    /\ Idle

\* the function returns; nothing of generate_game's state is touched
PureFrame ==
    /\ pc' = "returned"
    /\ UNCHANGED << base, column_count, difficulty_pct, rules, final_bitmask,
                    verificators_before_cleanup, final_verificators, visited, iteration, code, criterias,
                    outcome >>

\* Code::from_shift(shift, gc) for a shift of the solution space
CallFromShift ==
    /\ pc = "pure"
    /\ \E shift \in 0..(solution_count(gc) - 1) :
        call' = [fn |-> "from_shift", arg |-> shift, rule |-> NoCall.rule,
                 ret |-> from_shift(shift, gc)]
    /\ PureFrame

\* Code::get_shift(gc) of a valid code
CallGetShift ==
    /\ pc = "pure"
    /\ \E c \in ValidCodes(gc) :
        call' = [fn |-> "get_shift", arg |-> c, rule |-> NoCall.rule,
                 ret |-> get_shift(c, gc)]
    /\ PureFrame

\* Rule::evaluate(code) of a rule of the universe on a valid code
CallEvaluate ==
    /\ pc = "pure"
    /\ \E rule \in enumerate_rules(gc), c \in ValidCodes(gc) :
        call' = [fn |-> "evaluate", arg |-> c, rule |-> rule,
                 ret |-> evaluate(rule, c)]
    /\ PureFrame

\* the codes of fewer than column_count digits, each < base
ShortCodes(g) ==
    UNION {[1..n -> 0..(g.base - 1)] : n \in 0..(g.column_count - 1)}

\* Rule::evaluate(code) of a rule of the universe on a code that is too
\* short for some of the rules
CallEvaluateShort ==
    /\ pc = "pure"
    /\ \E rule \in enumerate_rules(gc), c \in ShortCodes(gc) :
        call' = [fn |-> "evaluate", arg |-> c, rule |-> rule,
                 ret |-> evaluate(rule, c)]
    /\ PureFrame

\* gc.get_all_column_combinations()
CallGetAllColumnCombinations ==
    /\ pc = "pure"
    /\ call' = [fn |-> "get_all_column_combinations", arg |-> 0,
                rule |-> NoCall.rule, ret |-> get_all_column_combinations(gc)]
    /\ PureFrame

\* gc.get_column_combinations(length) for a length up to column_count + 1
CallGetColumnCombinations ==
    /\ pc = "pure"
    /\ \E length \in 0..(gc.column_count + 1) :
        call' = [fn |-> "get_column_combinations", arg |-> length,
                 rule |-> NoCall.rule, ret |-> get_column_combinations(gc, length)]
    /\ PureFrame

PureNext ==
    \/ CallFromShift
    \/ CallGetShift
    \/ CallEvaluate
    \/ CallEvaluateShort
    \/ CallGetAllColumnCombinations
    \/ CallGetColumnCombinations

SpecPure == PureInit /\ [][PureNext]_vars

---------------------------------------------------------------------------
(* The scenario generate_game(5, 3, 10) *)

ScenarioInit ==
    /\ base = ScenarioBase
    /\ column_count = ScenarioColumnCount
    /\ difficulty_pct = ScenarioDifficulty
    /\ pc = "start"
    /\ Idle

\* an iteration of the selection loop, while the accepted list is short
ScenarioPickRule ==
    /\ Len(verificators_before_cleanup) < MaxScenarioAccepted
    /\ PickRule

ScenarioNext == GenerateRules \/ ScenarioPickRule

SpecScenario == ScenarioInit /\ [][ScenarioNext]_vars

---------------------------------------------------------------------------
(* Properties of the generated Game *)

\* the AND, over the solution space, of the masks of the criteria numbered in I
CriteriaAnd(I) ==
    {bit \in 0..(solution_count(Game.configuration) - 1) :
        \A i \in I : bit \in Game.criterias[i].verif.mask}

CriteriaIndices == 1..Len(Game.criterias)

\* C1: for every returned Game, the AND of the masks of all the verifiers of
\* Game.criterias has exactly one set bit, and the code decoded from that
\* bit's index by from_shift is Game.code.
C1_UniqueCode ==
    outcome = "game" =>
        /\ Cardinality(CriteriaAnd(CriteriaIndices)) = 1
        /\ \A bit \in CriteriaAnd(CriteriaIndices) :
                from_shift(bit, Game.configuration) = Game.code

\* a Game of two criteria or more, with a code other than zero, has been
\* returned
C1_Witness ==
    /\ outcome = "game"
    /\ Len(criterias) >= 2
    /\ \E i \in 1..Len(code) : code[i] # 0

\* C2: for every returned Game no retained verifier is redundant: the AND of
\* the masks of the other retained verifiers has strictly more set bits than
\* the AND of all the retained masks.
C2_NoRedundantVerifier ==
    outcome = "game" =>
        \A i \in CriteriaIndices :
            Cardinality(CriteriaAnd(CriteriaIndices \ {i}))
                > Cardinality(CriteriaAnd(CriteriaIndices))

\* a Game of three criteria has been returned
C2_Witness == outcome = "game" /\ Len(criterias) >= 3

\* C3: the rule list of every criterion of a returned Game contains the
\* criterion's true rule, and every group get_similar gives for a rule of the
\* generated universe contains that rule.
C3_DecoysContainTrueRule ==
    /\ outcome = "game" =>
            \A i \in CriteriaIndices :
                Game.criterias[i].verif.rule \in Game.criterias[i].rules
    /\ \A r \in enumerate_rules(gc) :
            \A k \in 1..Len(get_similar(r, gc)) :
                r \in get_similar(r, gc)[k].rules

\* a returned Game has a criterion whose true rule is XColumnsEquals with
\* count = column_count, shown among other rules
C3_Witness ==
    /\ outcome = "game"
    /\ \E i \in CriteriaIndices :
        /\ criterias[i].verif.rule.kind = "XColumnsEquals"
        /\ criterias[i].verif.rule.count = column_count
        /\ Cardinality(criterias[i].rules) >= 2

\* the verifiers held anywhere in generate_game's state
HeldVerifiers ==
    Range(verificators_before_cleanup) \cup Range(final_verificators)
    \cup {criterias[i].verif : i \in 1..Len(criterias)}

\* mask has solution_count bits, bit i being set iff rule evaluates to
\* true on the code decoded from i
IsMaskOf(mask, rule) ==
    /\ mask \subseteq 0..(Pow(base, column_count) - 1)
    /\ \A i \in 0..(Pow(base, column_count) - 1) :
            i \in mask <=> evaluate(rule, from_shift(i, gc)) = Ok(TRUE)

\* C12: get_mask(rule, config) is a mask of solution_count bits in which
\* bit i is set iff rule.evaluate(from_shift(i, config)) is true, for every i
\* in [0, solution_count); every Verifier of a returned Game (and every
\* verifier generate_game holds) carries mask = get_mask(its rule).  The
\* part about every enumerated rule depends on the configuration alone and
\* is evaluated when generate_game is entered.
C12_MaskOfRule ==
    /\ pc = "start" =>
            \A r \in enumerate_rules(gc) : IsMaskOf(get_mask(r, gc), r)
    /\ \A v \in HeldVerifiers : IsMaskOf(v.mask, v.rule)
    /\ outcome = "game" =>
            \A i \in CriteriaIndices :
                Game.criterias[i].verif.mask
                    = get_mask(Game.criterias[i].verif.rule, Game.configuration)

\* a Game over two columns has been returned with a verifier on one column
\* whose mask is not symmetric in the two columns
C12_Witness ==
    /\ outcome = "game"
    /\ column_count = 2
    /\ \E i \in CriteriaIndices :
        /\ criterias[i].verif.rule.kind = "MatchesOp"
        /\ Cardinality(criterias[i].verif.rule.columns) = 1
        /\ criterias[i].verif.mask = {0, 1}

\* C13: a criterion's description and rule list do not depend on which
\* listed rule is the true one: for every rule r, every group of
\* get_similar(r) and every rule r2 of that group, get_similar(r2) has a
\* group with the same description and the same set of rules; so for every
\* criterion of a returned Game and every rule listed in it.
C13_DecoysSymmetric ==
    /\ pc = "start" =>
            \A r \in enumerate_rules(gc) :
                \A k \in 1..Len(get_similar(r, gc)) :
                    \A r2 \in get_similar(r, gc)[k].rules :
                        \E k2 \in 1..Len(get_similar(r2, gc)) :
                            get_similar(r2, gc)[k2] = get_similar(r, gc)[k]
    /\ outcome = "game" =>
            \A i \in CriteriaIndices :
                \A r2 \in Game.criterias[i].rules :
                    \E k2 \in 1..Len(get_similar(r2, Game.configuration)) :
                        get_similar(r2, Game.configuration)[k2]
                            = Group(Game.criterias[i].description, Game.criterias[i].rules)

\* a returned Game has a criterion listing a rule other than the true one,
\* and a game whose true rule is that other rule can show the same criterion
C13_Witness ==
    /\ outcome = "game"
    /\ \E i \in CriteriaIndices :
        \E r2 \in criterias[i].rules :
            /\ r2 # criterias[i].verif.rule
            /\ r2 \in rules
            /\ \E k2 \in 1..Len(get_similar(r2, gc)) :
                    get_similar(r2, gc)[k2]
                        = Group(criterias[i].description, criterias[i].rules)

\* C14: generation is reproducible: two runs of generate_game with the same
\* (base, column_count, difficulty_pct) and the same caller-supplied seed make
\* the same random choices and return identical Games (generate_game takes
\* no seed, so any two calls with the same arguments are such runs).
C14_Reproducible ==
    (call.fn = "generate_game" /\ outcome = "game"
        /\ call.arg = << base, column_count, difficulty_pct >>)
    => Game = call.ret

\* C15: in the clients, testing a compatible code against criterion i
\* reports exactly evaluate(Game.criterias[i].verif.rule, code), the true rule
\* of the verifier and never a decoy, and bidding a compatible code reports
\* success iff the code equals Game.code.
C15_ClientTestAndBid ==
    /\ (call.fn = "tui_test" /\ call.ret.status = "Valid") =>
            /\ Len(call.ret.logs) = Len(call.arg.crits)
            /\ \A k \in 1..Len(call.arg.crits) :
                    Ok(call.ret.logs[k].result)
                        = evaluate(Game.criterias[call.arg.crits[k] + 1].verif.rule,
                                   call.arg.code)
    /\ call.fn = "cli_test" =>
            Ok(call.ret.solution)
                = evaluate(Game.criterias[call.arg.crits[1] + 1].verif.rule,
                           call.arg.code)
    /\ (call.fn \in {"tui_bid", "cli_bid"} /\ call.ret.status = "Valid") =>
            (call.ret.solution = TRUE <=> call.arg.code = Game.code)
    /\ (call.fn \in {"tui_test", "tui_bid"} /\ call.arg.code \in ValidCodes(gc)
            /\ \A k \in 1..Len(call.arg.crits) : call.arg.crits[k] < Len(criterias))
        => call.ret.status = "Valid"

\* the terminal UI has tested a compatible code on a criterion whose true
\* rule is false on it while a listed decoy is true on it
C15_Witness ==
    /\ call.fn = "tui_test"
    /\ call.ret.status = "Valid"
    /\ call.ret.logs[1].result = FALSE
    /\ \E r \in criterias[call.arg.crits[1] + 1].rules :
            evaluate(r, call.arg.code) = Ok(TRUE)

\* C16: solution_count() equals base^column_count for every (base,
\* column_count) of two u8, and when base^column_count does not fit the u32
\* that holds it generation fails instead of going on with the value
\* truncated mod 2^32: whatever solution_count returns is the untruncated
\* power (and is Pow(base, column_count) where TLC's integers can hold it).
C16_SolutionCountExact ==
    call.fn = "solution_count" =>
        /\ ~call.ret.overflow
        /\ call.ret.hi < Half \div 2 =>
                call.ret.hi * Half + call.ret.lo = Pow(base, column_count)

Passes(c, i) == evaluate(Game.criterias[i].verif.rule, c) = Ok(TRUE)

\* C27: for every returned Game, a code of column_count digits below base
\* makes the true rule of every criterion evaluate to true iff it is
\* Game.code, and Game.code is such a code.
C27_OnlyTheCodePasses ==
    outcome = "game" =>
        /\ is_solution_compatible(Game, Game.code)
        /\ \A i \in CriteriaIndices : Passes(Game.code, i)
        /\ \A c \in ValidCodes(Game.configuration) :
                (\A i \in CriteriaIndices : Passes(c, i)) <=> c = Game.code

\* a Game of two criteria or more has been returned, and some other code
\* passes all its criteria but one
C27_Witness ==
    /\ outcome = "game"
    /\ Len(criterias) >= 2
    /\ \E c \in ValidCodes(Game.configuration), i \in CriteriaIndices :
            /\ c # Game.code
            /\ ~Passes(c, i)
            /\ \A j \in CriteriaIndices \ {i} : Passes(c, j)

---------------------------------------------------------------------------
(* Properties of the redundancy pass *)

\* the AND, over the solution space, of the masks of the verifiers visited
\* at the positions J of the pass
VisitedAnd(J) ==
    {bit \in ones(gc) : \A j \in J : bit \in visited[j].v.mask}

VisitedIndices == 1..Len(visited)

\* C18 as stated: for every verifier visited by the redundancy pass,
\* other_bitmask is the AND of the masks of all the other verifiers accepted
\* by the selection loop, those found redundant earlier in the pass included.
C18_OtherOverAllAccepted ==
    \A i \in VisitedIndices :
        visited[i].other_bitmask = VisitedAnd(VisitedIndices \ {i})

\* C18: for every verifier visited by the redundancy pass, other_bitmask is
\* the AND of the masks of the other accepted verifiers that the pass has
\* not found redundant before this visit: the verifiers visited later and
\* the verifiers visited earlier and found useful.
C18_OtherOverStillAccepted ==
    \A i \in VisitedIndices :
        visited[i].other_bitmask =
            VisitedAnd({j \in VisitedIndices \ {i} :
                            j > i \/ visited[j].is_rule_useful})

\* the pass has visited a verifier after it found another one redundant,
\* and the redundant one's mask would have changed other_bitmask
C18_Witness ==
    \E i \in VisitedIndices :
        /\ \E j \in 1..(i - 1) : ~visited[j].is_rule_useful
        /\ visited[i].other_bitmask # VisitedAnd(VisitedIndices \ {i})

\* C19: after the redundancy pass the AND of the masks of the retained
\* verifiers equals the AND of the masks of all the accepted verifiers,
\* which is the final working mask.
C19_PassPreservesAnd ==
    (pc = "complexity" \/ outcome = "game") =>
        /\ AndMasks(final_verificators, gc) = VisitedAnd(VisitedIndices)
        /\ AndMasks(final_verificators, gc) = final_bitmask

\* the pass has dropped two verifiers of the accepted list and retained
\* others
C19_Witness ==
    /\ pc = "complexity"
    /\ Len(final_verificators) >= 1
    /\ Len(visited) >= Len(final_verificators) + 2

---------------------------------------------------------------------------
(* Properties of the selection loop *)

\* the AND, over the solution space, of the masks of the accepted verifiers
AcceptedAnd ==
    {bit \in ones(gc) :
        \A i \in 1..Len(verificators_before_cleanup) :
            bit \in verificators_before_cleanup[i].mask}

\* C26: whenever the selection loop tests its condition, the working mask W
\* is the AND of the masks of the accepted verifiers (all ones when there is
\* none) and W has a set bit.
C26_WorkingMaskIsAnd ==
    pc = "select" =>
        /\ final_bitmask = AcceptedAnd
        /\ solution_count(gc) >= 1 => Cardinality(final_bitmask) >= 1
        /\ final_bitmask # {}

\* the loop is about to start an iteration with two verifiers accepted,
\* after an iteration that skipped a rule no code of W satisfies
C26_Witness ==
    /\ pc = "select"
    /\ Cardinality(final_bitmask) > 1
    /\ Len(verificators_before_cleanup) >= 2
    /\ iteration.msg = "skipped (0 sols)."

\* C20: an iteration of the selection loop computes bitmask_and = W AND
\* mask(rule) for a rule of the ruleset, and when bitmask_and is empty or
\* equal to W the rule is skipped: the working mask W and the accepted list
\* are both as they were before the iteration.
C20_SkipChangesNothing ==
    [][(pc = "select" /\ pc' = "select") =>
        /\ \E rule \in rules :
                iteration'.bitmask_and = final_bitmask \cap get_mask(rule, gc)
        /\ (iteration'.bitmask_and = {} \/ iteration'.bitmask_and = final_bitmask) =>
                /\ iteration'.msg # "chosen."
                /\ UNCHANGED << final_bitmask, verificators_before_cleanup >>]_vars

\* after a verifier was accepted, an iteration has drawn a rule that does
\* not improve W and the loop goes on
C20_Witness ==
    /\ pc = "select"
    /\ iteration.msg = "skipped (0 impr)."
    /\ iteration.bitmask_and = final_bitmask
    /\ Len(verificators_before_cleanup) >= 1
    /\ Cardinality(final_bitmask) > 1

\* after a verifier was accepted, an iteration has drawn a rule that no
\* code of W satisfies
C20_WitnessNoSolution ==
    /\ pc = "select"
    /\ iteration.msg = "skipped (0 sols)."
    /\ Len(verificators_before_cleanup) >= 1

\* the verifiers the pass found useful, in the order it visited them
VisitedUseful ==
    LET Useful(visit) == visit.is_rule_useful
        kept == SelectSeq(visited, Useful)
    IN  [i \in 1..Len(kept) |-> kept[i].v]

\* C22: Game.criterias holds one criterion per verifier retained by the
\* cleanup pass, in the order the pass leaves them, and the masks of
\* successive criteria have non-increasing numbers of set bits.
C22_CriteriasInCleanupOrder ==
    outcome = "game" =>
        /\ Len(Game.criterias) = Len(final_verificators)
        /\ [i \in CriteriaIndices |-> Game.criterias[i].verif] = VisitedUseful
        /\ VisitedUseful = final_verificators
        /\ \A i \in CriteriaIndices : i + 1 \in CriteriaIndices =>
                Cardinality(Game.criterias[i].verif.mask)
                    >= Cardinality(Game.criterias[i + 1].verif.mask)

\* a Game has been returned whose criteria do not all have the same number
\* of set bits, after a pass that dropped a verifier
C22_Witness ==
    /\ outcome = "game"
    /\ Len(visited) > Len(criterias)
    /\ \E i \in CriteriaIndices : i + 1 \in CriteriaIndices /\
            Cardinality(Game.criterias[i].verif.mask)
                > Cardinality(Game.criterias[i + 1].verif.mask)

\* the rule list as the enumeration is described: the four one-column
\* operators over every column, the three Sum operators over every non-empty
\* column subset S with every threshold below |S| * base, and
\* XColumnsEquals for every count up to column_count and every digit
ExpectedRules ==
    {MatchesOp(op, 0, {c}) :
        op \in {"Pair", "Impair", "Lowest", "Highest"}, c \in 0..(column_count - 1)}
    \cup UNION {{MatchesOp(op, n, S) :
                    op \in {"SumBelow", "SumEquals", "SumAbove"},
                    n \in 0..(Cardinality(S) * base - 1)} :
                S \in (SUBSET (0..(column_count - 1))) \ {{}}}
    \cup {XColumnsEquals(count, value) :
            count \in 0..column_count, value \in 0..(base - 1)}

\* C23: before the filter, generate_rules has pushed exactly the rules
\* Pair, Impair, Lowest and Highest over every single column, SumBelow(n),
\* SumEquals(n) and SumAbove(n) over every non-empty column subset S for
\* every n below |S| * base, and XColumnsEquals(count, value) for every
\* count in 0..=column_count and every value below base.
C23_EnumeratedRules ==
    call.fn = "generate_rules" =>
        /\ outcome # "panic"
        /\ call.ret = ExpectedRules

RECURSIVE DigitSum(_, _)
\* the mathematical sum of the digits of c at the columns
DigitSum(c, columns) ==
    IF columns = {} THEN 0
    ELSE LET col == CHOOSE x \in columns : TRUE
         IN  c[col + 1] + DigitSum(c, columns \ {col})

\* C25: for every base and column_count of a u8, the range of the Sum
\* thresholds of a column set S ends at the mathematical value |S| * base,
\* and a Sum rule compares the mathematical sum of the referenced digits
\* with its threshold: neither computation wraps or aborts.
C25_SumsDoNotWrap ==
    /\ call.fn = "threshold_end" =>
            /\ outcome # "panic"
            /\ call.ret = Cardinality(call.arg) * base
    /\ (call.fn = "evaluate" /\ call.rule.kind = "MatchesOp" /\ call.rule.op \in SumOps) =>
            /\ outcome # "panic"
            /\ call.ret.err = "none"
            /\ call.ret.val =
                    LET sum == DigitSum(call.arg, call.rule.columns)
                    IN  CASE call.rule.op = "SumBelow"  -> sum < call.rule.value
                          [] call.rule.op = "SumEquals" -> sum = call.rule.value
                          [] call.rule.op = "SumAbove"  -> sum > call.rule.value

\* an iteration that accepts a rule leaves W with fewer set bits, and at
\* least one; no iteration leaves W with more set bits
C28_Step ==
    /\ Cardinality(final_bitmask') <= Cardinality(final_bitmask)
    /\ verificators_before_cleanup' # verificators_before_cleanup =>
            /\ Len(verificators_before_cleanup') = Len(verificators_before_cleanup) + 1
            /\ Cardinality(final_bitmask') < Cardinality(final_bitmask)
            /\ Cardinality(final_bitmask') >= 1

\* C28: every acceptance of the selection loop strictly decreases the number
\* of set bits of W and leaves at least one, the number of set bits of W
\* never increases over the iterations, and the accepted list never has more
\* than solution_count - 1 verifiers.
C28_AcceptanceShrinksW ==
    /\ [][(pc = "select" /\ pc' = "select") => C28_Step]_vars
    /\ [](pc = "select" =>
            Len(verificators_before_cleanup) <= solution_count(gc) - 1)

\* the loop has accepted solution_count - 1 verifiers, two or more
C28_Witness ==
    /\ pc = "select"
    /\ Len(verificators_before_cleanup) = solution_count(gc) - 1
    /\ Len(verificators_before_cleanup) >= 2
    /\ iteration.msg = "chosen."

\* C29: no two verifiers of the accepted list have equal masks, no accepted
\* mask is all zeros or all ones, and the comparison other_verificator != v
\* of the cleanup pass leaves out exactly the verifier under test.
C29_AcceptedMasksDiffer ==
    /\ pc = "select" =>
        LET accepted == verificators_before_cleanup
        IN  /\ \A i, j \in 1..Len(accepted) :
                    i # j => accepted[i].mask # accepted[j].mask
            /\ \A i \in 1..Len(accepted) :
                    /\ accepted[i].mask # {}
                    /\ accepted[i].mask # ones(gc)
                    /\ Len(Others(accepted, accepted[i])) = Len(accepted) - 1
    /\ \A i, j \in VisitedIndices :
            i # j => visited[i].v.mask # visited[j].v.mask

\* two verifiers are accepted, and the ruleset holds another rule with the
\* mask of one of them
C29_Witness ==
    /\ pc = "select"
    /\ Len(verificators_before_cleanup) >= 2
    /\ \E i \in 1..Len(verificators_before_cleanup), r \in rules :
            /\ r # verificators_before_cleanup[i].rule
            /\ get_mask(r, gc) = verificators_before_cleanup[i].mask

---------------------------------------------------------------------------
(* Properties of the test command of the terminal UI *)

\* the line of the last command, its code and its criteria
TestedLine == call.arg.command_line

\* a test command has been processed
TestProcessed == call.fn = "process_commands" /\ TestedLine.command = "t"

\* the code is not compatible, or a listed criterion is not a decimal digit
\* below the number of criteria
TestRefused ==
    \/ ~is_solution_compatible(Game, TestedLine.code_str)
    \/ \E k \in 1..Len(TestedLine.criterias) :
            TestedLine.criterias[k] \notin 0..(Len(Game.criterias) - 1)

\* Status::Error, the logs and the command line as they were
TestDidNothing ==
    /\ call.ret.command_status = "Error"
    /\ call.ret.logs = call.arg.logs
    /\ call.ret.command_line = TestedLine

\* Status::Valid, one log per listed criterion appended in the listed
\* order, the command line cleared
TestDidAll ==
    /\ call.ret.command_status = "Valid"
    /\ Len(call.ret.logs) = Len(call.arg.logs) + Len(TestedLine.criterias)
    /\ SubSeq(call.ret.logs, 1, Len(call.arg.logs)) = call.arg.logs
    /\ \A k \in 1..Len(TestedLine.criterias) :
            LET log == call.ret.logs[Len(call.arg.logs) + k]
            IN  /\ log.crit_index = TestedLine.criterias[k]
                /\ log.code = TestedLine.code_str
    /\ call.ret.command_line = ClearedLine

\* C30 as stated: a test command whose code is incompatible, or one of whose
\* listed criteria is not a digit below the number of criteria, returns
\* Status::Error with the logs and the command line unchanged; every other
\* test command appends one log per listed criterion, returns Status::Valid
\* and clears the command line.
C30_TestAllOrNothing_AsStated ==
    TestProcessed => IF TestRefused THEN TestDidNothing ELSE TestDidAll

\* C30: a test command whose code is incompatible, which lists no
\* criterion, or one of whose listed criteria is not a digit below the
\* number of criteria, returns Status::Error with the logs and the command
\* line unchanged; every other test command appends one log per listed
\* criterion, in the listed order, returns Status::Valid and clears the
\* command line.
C30_TestAllOrNothing ==
    TestProcessed =>
        IF TestRefused \/ TestedLine.criterias = << >>
        THEN TestDidNothing
        ELSE TestDidAll

\* after a first test, a test of a compatible code listing a criterion of
\* the Game and then a character that is not one has been refused
C30_Witness ==
    /\ TestProcessed
    /\ call.arg.logs # << >>
    /\ is_solution_compatible(Game, TestedLine.code_str)
    /\ Len(TestedLine.criterias) = 2
    /\ TestedLine.criterias[1] \in 0..(Len(Game.criterias) - 1)
    /\ TestedLine.criterias[2] \notin 0..(Len(Game.criterias) - 1)
    /\ call.ret.command_status = "Error"

\* after a first test, a test of two criteria has been accepted
C30_WitnessValid ==
    /\ TestProcessed
    /\ call.arg.logs # << >>
    /\ Len(TestedLine.criterias) = 2
    /\ call.ret.command_status = "Valid"

---------------------------------------------------------------------------
(* Properties of Code *)

RECURSIVE PositionalSum(_, _)
\* the sum of digit_i * base^(column_count - 1 - i) over the columns i >= k
\* (columns counted from 0)
PositionalSum(c, k) ==
    IF k >= Len(c) THEN 0
    ELSE c[k + 1] * Pow(base, column_count - 1 - k) + PositionalSum(c, k + 1)

\* C4: for base >= 1 and every shift in [0, base^column_count),
\* get_shift(from_shift(shift)) = shift.
C4_EncodeAfterDecode ==
    (call.fn = "from_shift" /\ base >= 1
        /\ call.arg \in 0..(Pow(base, column_count) - 1))
    => get_shift(call.ret, gc) = call.arg

\* from_shift has decoded a shift whose digits are not all equal
C4_Witness ==
    /\ call.fn = "from_shift"
    /\ column_count = 3
    /\ call.ret[1] # call.ret[3]
    /\ call.arg > base

\* C5: for every valid code c, get_shift(c) is the positional sum of its
\* digits, lies in [0, base^column_count), and from_shift(get_shift(c)) has
\* the digits of c.
C5_DecodeAfterEncode ==
    (call.fn = "get_shift" /\ call.arg \in ValidCodes(gc)) =>
        /\ call.ret = PositionalSum(call.arg, 0)
        /\ call.ret >= 0
        /\ call.ret < Pow(base, column_count)
        /\ from_shift(call.ret, gc) = call.arg

\* get_shift has encoded a code whose first and last digits differ
C5_Witness ==
    /\ call.fn = "get_shift"
    /\ column_count = 3
    /\ call.arg[1] # call.arg[3]
    /\ call.ret > base

---------------------------------------------------------------------------
(* Properties of the rule universe *)

RECURSIVE Binomial(_, _)
\* the number of k-element subsets of an n-element set
Binomial(n, k) ==
    IF k = 0 THEN 1
    ELSE IF n = 0 THEN 0
    ELSE Binomial(n - 1, k - 1) + Binomial(n - 1, k)

\* C24: get_all_column_combinations returns exactly the non-empty subsets
\* of {0..column_count-1}, and get_column_combinations(k) exactly those of k
\* elements, C(column_count, k) of them.
C24_ColumnCombinations ==
    /\ call.fn = "get_all_column_combinations" =>
            call.ret = (SUBSET (0..(column_count - 1))) \ {{}}
    /\ call.fn = "get_column_combinations" =>
            /\ call.ret = {S \in (SUBSET (0..(column_count - 1))) \ {{}} :
                                Cardinality(S) = call.arg}
            /\ Cardinality(call.ret) =
                    IF call.arg = 0 THEN 0 ELSE Binomial(column_count, call.arg)

\* get_column_combinations(2) has returned the 3 pairs of 3 columns
C24_Witness ==
    /\ call.fn = "get_column_combinations"
    /\ column_count = 3
    /\ call.arg = 2
    /\ call.ret = {{0, 1}, {0, 2}, {1, 2}}

\* generate_rules has returned
RulesGenerated == pc \in {"select", "complexity", "stopped"} /\ base >= 1

\* C6: a rule of the enumerated universe is in the filtered universe iff its
\* mask has ones_count > 0 and floor(ones_count * 100 / solution_count) >
\* min_difficulty, min_difficulty being difficulty_pct clamped to 0..100.
C6_DifficultyFilter ==
    RulesGenerated =>
        /\ rules \subseteq enumerate_rules(gc)
        /\ \A r \in enumerate_rules(gc) :
            LET ones_count == Cardinality(get_mask(r, gc))
                min_difficulty == IF difficulty_pct <= 100 THEN difficulty_pct ELSE 100
            IN  r \in rules <=>
                    /\ 0 < ones_count
                    /\ (ones_count * 100) \div Pow(base, column_count) > min_difficulty

\* the filter has kept some rules and discarded others, one of them exactly
\* at the threshold
C6_Witness ==
    /\ RulesGenerated
    /\ rules # {}
    /\ difficulty_pct > 0
    /\ \E r \in enumerate_rules(gc) \ rules :
        Cardinality(get_mask(r, gc)) * 100 = difficulty_pct * Pow(base, column_count)

---------------------------------------------------------------------------
(* How generate_game stops *)

\* C7: with base = 1, generate_game does not fail: it returns a Game with
\* zero criteria whose code is the all-zero code.
C7_BaseOneReturnsGame ==
    (base = 1 /\ pc = "stopped") =>
        /\ outcome = "game"
        /\ Len(criterias) = 0
        /\ code = [i \in 1..column_count |-> 0]

\* C8: whenever generate_game stops, it stops by returning a Game or an
\* EnigmindError (stated for base >= 1, the inputs with a solution space
\* that is not empty; the filtered universe may be empty and the verifier
\* list may be empty).
C8_ReturnsGameOrError ==
    (pc = "stopped" /\ base >= 1) => outcome \in {"game", "error"}

---------------------------------------------------------------------------
(* Properties of Rule::evaluate *)

\* C10: evaluate of MatchesOp(Highest, {c}) (Lowest, {c}) is true iff the
\* digit at column c is the maximum (minimum) digit of the code and that
\* value occurs exactly once in the code; Highest({A}) is true on [4,1,1]
\* and false on [4,4,1].
C10_HighestLowestUnique ==
    (call.fn = "evaluate" /\ call.rule.kind = "MatchesOp"
        /\ call.rule.op \in {"Highest", "Lowest"}
        /\ Cardinality(call.rule.columns) = 1
        /\ \A c \in call.rule.columns : c < Len(call.arg))
    => \A c \in call.rule.columns :
        LET digits == call.arg
            d == digits[c + 1]
            unique == Cardinality({i \in 1..Len(digits) : digits[i] = d}) = 1
            extreme == IF call.rule.op = "Highest"
                       THEN \A i \in 1..Len(digits) : digits[i] <= d
                       ELSE \A i \in 1..Len(digits) : d <= digits[i]
        IN  /\ call.ret.err = "none"
            /\ call.ret.val = (extreme /\ unique)
            /\ (call.rule.op = "Highest" /\ c = 0 /\ digits = << 4, 1, 1 >>)
                    => call.ret.val = TRUE
            /\ (call.rule.op = "Highest" /\ c = 0 /\ digits = << 4, 4, 1 >>)
                    => call.ret.val = FALSE

\* Highest({A}) has been evaluated on [4,4,1], a tie on the maximum
C10_Witness ==
    /\ call.fn = "evaluate"
    /\ call.rule = MatchesOp("Highest", 0, {0})
    /\ call.arg = << 4, 4, 1 >>
    /\ call.ret = Ok(FALSE)

\* C11: evaluate of a MatchesOp rule whose column set has an index >= the
\* length of the code returns the error ColumnIndexOutOfBounds and no
\* boolean, whatever the operator; when every index is < the length of the
\* code it returns a boolean.
C11_ColumnIndexOutOfBounds ==
    (call.fn = "evaluate" /\ call.rule.kind = "MatchesOp") =>
        IF \E col \in call.rule.columns : col >= Len(call.arg)
        THEN call.ret = Err("ColumnIndexOutOfBounds")
        ELSE call.ret.err = "none" /\ call.ret.val \in BOOLEAN

\* a Sum rule over columns A and C has been evaluated on a code of two
\* digits: A is inside the code, C is not
C11_Witness ==
    /\ call.fn = "evaluate"
    /\ call.rule.kind = "MatchesOp"
    /\ call.rule.op = "SumEquals"
    /\ call.rule.columns = {0, 2}
    /\ Len(call.arg) = 2
    /\ call.ret.err = "ColumnIndexOutOfBounds"

---------------------------------------------------------------------------
(* Termination of the selection loop in the scenario generate_game(5, 3, 10) *)

\* some rule of the filtered universe is acceptable at the working mask W
Acceptable(W) ==
    \E r \in rules :
        LET candidate == W \cap get_mask(r, gc)
        IN  candidate # {} /\ candidate # W

\* some rule of the filtered universe tells the codes of shifts i and j apart
Separated(i, j) ==
    \E r \in rules :
        evaluate(r, from_shift(i, gc)).val # evaluate(r, from_shift(j, gc)).val

\* at every working mask W of more than one code a rule is acceptable, and
\* any two codes of the full solution space are told apart by a rule (so
\* that a rule is acceptable at every mask of more than one code)
C9_Progress ==
    (pc = "select" /\ Cardinality(final_bitmask) > 1) =>
        /\ rules # {}
        /\ Acceptable(final_bitmask)
        /\ final_bitmask = ones(gc) =>
                \A i, j \in final_bitmask : i < j => Separated(i, j)

\* an iteration leaves W and the accepted list alone, or accepts one more
\* verifier and leaves W strictly smaller and not empty
C9_Variant ==
    \/ UNCHANGED << final_bitmask, verificators_before_cleanup >>
    \/ /\ Len(verificators_before_cleanup') = Len(verificators_before_cleanup) + 1
       /\ final_bitmask' \subseteq final_bitmask
       /\ final_bitmask' # final_bitmask
       /\ final_bitmask' # {}

---------------------------------------------------------------------------
(* The selection loop that cannot end *)

\* the loop is at a working mask of more than one code that no rule of a
\* non-empty filtered universe improves
Stuck ==
    /\ pc = "select"
    /\ Cardinality(final_bitmask) > 1
    /\ rules # {}
    /\ ~Acceptable(final_bitmask)

\* C21: once the selection loop is at a working mask W of more than one code
\* for which every rule of the filtered universe gives W AND mask empty or
\* equal to W, every later step leaves it there: W and the accepted list are
\* unchanged, the loop is not left and no error is raised.
C21_StuckForever ==
    [][Stuck =>
        /\ Stuck'
        /\ UNCHANGED << final_bitmask, verificators_before_cleanup >>
        /\ outcome' = "running"
        /\ iteration'.msg # "chosen."]_vars

\* generate_game(2, 2, 50) has accepted verifiers, is at such a working
\* mask, and has drawn a rule there
C21_Witness ==
    /\ Stuck
    /\ base = 2 /\ column_count = 2 /\ gc.min_difficulty = 50
    /\ Len(verificators_before_cleanup) >= 1
    /\ iteration.msg \in {"skipped (0 sols).", "skipped (0 impr)."}

====
